---- MODULE Spec2Model ----
(***************************************************************************)
(* Leader-follower replication of an in-memory key-value store             *)
(* (Chinzzii/leader-replication-go).                                       *)
(*                                                                         *)
(* Two state machines share this module.                                   *)
(*   SpecKV  one store.KV (internal/store/store.go) used by concurrent     *)
(*           callers of Upsert, every statement of Upsert a step of its    *)
(*           own, the RWMutex included.                                    *)
(*   Spec    a cluster of one leader and its followers                     *)
(*           (internal/api/http.go, internal/repl/repl.go): the put        *)
(*           handler, the broadcast, one task per peer, the follower's     *)
(*           replicate handler and the partition control.  A store's       *)
(*           Upsert is one atomic step there, which SpecKV justifies.      *)
(* SpecSnapshot adds a caller of KV.Snapshot to SpecKV; SpecDirect and     *)
(* SpecPartition send replicate and partition requests to every node.      *)
(***************************************************************************)
EXTENDS Integers, Sequences, FiniteSets, TLC

\* ------------------------------------------------------------------ bounds
MaxKvTasks == 3   \* concurrent callers of Upsert in SpecKV
MaxKvTs    == 2   \* timestamps offered in SpecKV: 1..MaxKvTs
MaxPuts    == 2   \* client put requests in Spec
MaxClock   == 2   \* Spec's wall clock reads 1..MaxClock
MaxAccessors == 3 \* requests and goroutines at the leader's BlockPeers in SpecFilter

\* --------------------------------------------------------------- the store
Keys   == {"k1", "k2"}
Values == {"a", "b"}

\* store.Entry: a key, a value and the timestamp of the write.
Entry(k, v, t) == [key |-> k, value |-> v, ts |-> t]

\* The zero Entry a lookup of a missing key yields (time.Time{} is before
\* every time.Now()).
ZeroEntry == Entry("", "", 0)

\* time.Time.Before
Before(a, b) == a < b

\* `cur, ok := kv.data[e.Key]`
Lookup(data, k) ==
  IF k \in DOMAIN data THEN [ok |-> TRUE, e |-> data[k]]
                       ELSE [ok |-> FALSE, e |-> ZeroEntry]

\* A store with no conflict resolution: the last call wins.
AcceptsAlways(cur, e) == TRUE

\* The comparison the wrong way round: `!cur.TS.Before(e.TS)`.
AcceptsReversed(cur, e) == ~cur.ok \/ ~Before(cur.e.ts, e.ts)

\* The condition of Upsert's if: `!ok || !e.TS.Before(cur.TS)`.
Accepts(cur, e) == ~cur.ok \/ ~Before(e.ts, cur.e.ts)

\* A write that replaces the map by one holding the entry alone.
MapSetAlone(data, e) ==
  [k \in {e.key} |-> e]

\* `kv.data[e.Key] = e`
MapSet(data, e) ==
  [k \in DOMAIN data \cup {e.key} |-> IF k = e.key THEN e ELSE data[k]]

\* A store that always takes the incoming timestamp and takes the value only
\* when the write is accepted.
StoreWriteStampAlways(data, cur, e) ==
  IF Accepts(cur, e) THEN MapSet(data, e)
  ELSE MapSet(data, Entry(e.key, cur.e.value, e.ts))

\* The if statement of Upsert, given the entry `cur` read before it.
StoreWrite(data, cur, e) ==
  IF Accepts(cur, e) THEN MapSet(data, e) ELSE data

\* KV.Upsert as one atomic step (its body runs under kv.mu's write lock).
Upsert(data, e) == StoreWrite(data, Lookup(data, e.key), e)

\* ---------------------------------------------------------------- state
VARIABLES
  kvData,   \* SpecKV: KV.data
  kvMu,     \* SpecKV: the holder of KV.mu's write lock, 0 when free
  kvTask,   \* SpecKV: each caller of Upsert: pc, its argument e, its local cur
  kvLog,    \* SpecKV, history: the if statements executed, in order:
            \*   the entry, the map before and the map after
  kvSnap    \* SpecSnapshot: the caller of Snapshot: pc, the map `copy`, and
            \*   (history) the map the caller was handed at the return

VARIABLES
  mode,     \* Spec: the leader's cfg.Mode
  clock,    \* Spec: the wall clock time.Now() reads
  store,    \* Spec: each node's KV.data
  blocked,  \* Spec: each node's cfg.BlockPeers, as the set of its keys
  put,      \* Spec: each client put request: where handlePut is in it
  task,     \* Spec: each put's goroutine per peer
  hist,     \* SpecSyncTraced, history: per put, which of the Tracked peers
            \*   the leader had blocked when the request came in
  reply     \* SpecDirect: the node and the status code of the last answer to
            \*   a replicate request that did not come from the leader

VARIABLES
  smu,      \* SpecFilter: the holder of the leader Server's mu, 0 when free
  acc       \* SpecFilter: each request or goroutine that goes to the leader's
            \*   BlockPeers: what it is, where it is, what it has read

kvVars == <<kvData, kvMu, kvTask, kvLog, kvSnap>>
muVars == <<smu, acc>>
clVars == <<mode, clock, store, blocked, put, task, hist, reply, smu, acc>>
\* What no step of the cluster changes, but for the history PutReceive keeps.
fixed == <<kvData, kvMu, kvTask, kvLog, kvSnap, mode, hist, reply, smu, acc>>
vars == <<kvData, kvMu, kvTask, kvLog, kvSnap, mode, clock, store, blocked, put, task, hist,
          reply, smu, acc>>

\* ------------------------------------------------------- SpecKV: one store
KvTasks   == 1..MaxKvTasks
KvTs      == 1..MaxKvTs
KvEntries == {Entry(k, v, t) : k \in Keys, v \in Values, t \in KvTs}

KvIdle == [pc |-> "idle", e |-> ZeroEntry, cur |-> [ok |-> FALSE, e |-> ZeroEntry]]

\* No call of Snapshot yet.
SnapIdle == [pc |-> "idle", copy |-> <<>>, ret |-> <<>>]

\* store.New
KvInit ==
  /\ kvData = <<>>
  /\ kvMu = 0
  /\ kvTask = [t \in KvTasks |-> KvIdle]
  /\ kvLog = <<>>
  /\ kvSnap = SnapIdle

\* A goroutine calls kv.Upsert(e).  Callers are numbered in the order of
\* their calls.
KvCall(t, e) ==
  /\ kvTask[t].pc = "idle"
  /\ \A u \in KvTasks : u < t => kvTask[u].pc # "idle"
  /\ kvTask' = [kvTask EXCEPT ![t] = [@ EXCEPT !.pc = "lock", !.e = e]]
  /\ UNCHANGED <<kvData, kvMu, kvLog, kvSnap, clVars>>

\* An Upsert that takes no lock.
MuFreeIgnored(t) == TRUE

\* sync.RWMutex.Lock succeeds only when no one holds the lock, for writing
\* or for reading.
MuFree(t) == kvMu = 0 /\ kvSnap.pc # "copy"

\* `kv.mu.Lock()`
KvLock(t) ==
  /\ kvTask[t].pc = "lock"
  /\ MuFree(t)
  /\ kvMu' = t
  /\ kvTask' = [kvTask EXCEPT ![t].pc = "read"]
  /\ UNCHANGED <<kvData, kvLog, kvSnap, clVars>>

\* `cur, ok := kv.data[e.Key]`
KvRead(t) ==
  /\ kvTask[t].pc = "read"
  /\ kvTask' = [kvTask EXCEPT ![t] =
                  [@ EXCEPT !.pc = "write", !.cur = Lookup(kvData, kvTask[t].e.key)]]
  /\ UNCHANGED <<kvData, kvMu, kvLog, kvSnap, clVars>>

\* `if !ok || !e.TS.Before(cur.TS) { kv.data[e.Key] = e }`
KvWrite(t) ==
  /\ kvTask[t].pc = "write"
  /\ kvData' = StoreWrite(kvData, kvTask[t].cur, kvTask[t].e)
  /\ kvLog' = Append(kvLog, [e |-> kvTask[t].e, before |-> kvData, after |-> kvData'])
  /\ kvTask' = [kvTask EXCEPT ![t].pc = "unlock"]
  /\ UNCHANGED <<kvMu, kvSnap, clVars>>

\* `defer kv.mu.Unlock()`, and Upsert returns (it has no result, no error).
KvUnlock(t) ==
  /\ kvTask[t].pc = "unlock"
  /\ kvMu' = IF kvMu = t THEN 0 ELSE kvMu
  /\ kvTask' = [kvTask EXCEPT ![t].pc = "done"]
  /\ UNCHANGED <<kvData, kvLog, kvSnap, clVars>>

\* A Snapshot that hands out the store's own map.
SnapViewAliased == kvData

\* The map the caller of Snapshot holds: `copy`, made by
\* make(map[string]Entry, len(kv.data)) and filled by the loop.
SnapView == kvSnap.copy

\* A Snapshot that takes no lock.
RMuFreeIgnored == TRUE

\* sync.RWMutex.RLock succeeds only when no one holds the lock for writing.
RMuFree == kvMu = 0

\* `kv.mu.RLock()` and `copy := make(...)`
SnapRLock ==
  /\ kvSnap.pc = "idle"
  /\ RMuFree
  /\ kvSnap' = [kvSnap EXCEPT !.pc = "copy", !.copy = <<>>]
  /\ UNCHANGED <<kvData, kvMu, kvTask, kvLog, clVars>>

\* One round of `for k, v := range kv.data { copy[k] = v }`, in any order
\* of the keys.
SnapCopy(k) ==
  /\ kvSnap.pc = "copy"
  /\ k \in DOMAIN kvData \ DOMAIN kvSnap.copy
  /\ kvSnap' = [kvSnap EXCEPT !.copy = MapSet(@, kvData[k])]
  /\ UNCHANGED <<kvData, kvMu, kvTask, kvLog, clVars>>

\* The loop is through, `return copy` and the deferred `kv.mu.RUnlock()`.
SnapReturn ==
  /\ kvSnap.pc = "copy"
  /\ DOMAIN kvData \subseteq DOMAIN kvSnap.copy
  /\ kvSnap' = [kvSnap EXCEPT !.pc = "done", !.ret = SnapView]
  /\ UNCHANGED <<kvData, kvMu, kvTask, kvLog, clVars>>

\* What the caller may write into the map it was handed.
SnapEdits == {Entry(k, "z", MaxKvTs) : k \in Keys}

\* The caller of Snapshot writes into the map it was handed.
SnapMutate(e) ==
  /\ kvSnap.pc = "done"
  /\ kvSnap' = [kvSnap EXCEPT !.pc = "edited", !.copy = MapSet(@, e)]
  /\ UNCHANGED <<kvData, kvMu, kvTask, kvLog, clVars>>

KvNext ==
  \/ \E t \in KvTasks, e \in KvEntries : KvCall(t, e)
  \/ \E t \in KvTasks : KvLock(t)
  \/ \E t \in KvTasks : KvRead(t)
  \/ \E t \in KvTasks : KvWrite(t)
  \/ \E t \in KvTasks : KvUnlock(t)


\* ------------------------------------------------------ Spec: the cluster
\* cluster.Role, cluster.Mode; a -mode flag that is neither is kept as given.
Leader    == "leader"
Followers == {"f1", "f2"}
Nodes     == {Leader} \cup Followers
Sync      == "sync"
Async     == "async"
Modes     == {Sync, Async, "other"}
Puts      == 1..MaxPuts

\* cfg.Role and cfg.Peers of each node: the leader is started with the
\* followers as -peers, a follower with none.
RoleOf(n)  == IF n = Leader THEN "leader" ELSE "follower"
PeersOf(n) == IF n = Leader THEN Followers ELSE {}

\* What a client may send as key (the empty key included) and what the
\* partition endpoint may get as block= or unblock= ("" when not given).
PutKeys   == Keys \cup {""}
PeerArgs  == Followers \cup {""}

\* A put request: where its handler is, the node that got it, the entry
\* made for it, the status code answered (0: none yet).
PutIdle  == [pc |-> "idle", node |-> Leader, e |-> ZeroEntry, status |-> 0]

\* The outcomes of a per-peer goroutine, as the leader sees them.  ("late" is
\* a failed client.Post whose request is still on its way to the peer.)
Terminal == {"skipped", "ok", "failed", "late"}

\* No replicate request of an outsider answered yet.
NoReply == [node |-> "", status |-> 0]

\* The requests and goroutines that go to the leader's BlockPeers: a
\* partition request with its block= and unblock= arguments, a status request,
\* the check of a broadcast goroutine for its peer b.
Accessors == 1..MaxAccessors
AccIdle == [pc |-> "idle", kind |-> "", b |-> "", u |-> "", seen |-> {}]
AccCalls ==
  {[pc |-> "call", kind |-> "partition", b |-> b, u |-> u, seen |-> {}] :
     b \in PeerArgs, u \in PeerArgs}
  \cup {[pc |-> "call", kind |-> "status", b |-> "", u |-> "", seen |-> {}]}
  \cup {[pc |-> "call", kind |-> "check", b |-> p, u |-> "", seen |-> {}] :
          p \in Followers}

ClusterFrozen ==
  /\ clock = 1
  /\ store = [n \in Nodes |-> <<>>]
  /\ blocked = [n \in Nodes |-> {}]
  /\ put = [r \in Puts |-> PutIdle]
  /\ task = [r \in Puts |-> [p \in Followers |-> "none"]]
  /\ hist = [r \in Puts |-> {}]
  /\ reply = NoReply
  /\ smu = 0
  /\ acc = [a \in Accessors |-> AccIdle]

\* main: the nodes start with empty stores and empty BlockPeers.
Init ==
  /\ KvInit
  /\ mode \in Modes
  /\ ClusterFrozen

\* Keys are interchangeable names: a request brings a key that no earlier
\* request brought only if it is the first such of KeySeq.  Every request
\* brings a value of its own.
KeySeq   == <<"k1", "k2">>
Accepted == {q \in Puts : put[q].pc \notin {"idle", "rejected"}}
FirstNew(seq, used) ==
  {seq[i] : i \in {i \in 1..Len(seq) :
                     seq[i] \notin used /\ \A j \in 1..(i - 1) : seq[j] \in used}}
KeyChoice == LET used == {put[q].e.key : q \in Accepted} IN
             used \cup FirstNew(KeySeq, used) \cup {""}
ValueOf(r) == <<"a", "b", "c", "d">>[r]

\* A handler without the empty key check.
PutReceiveAnyKey(r, n, k) ==
  /\ put[r].pc = "idle"
  /\ \A q \in Puts : q < r => put[q].pc # "idle"
  /\ k \in KeyChoice
  /\ put' = [put EXCEPT ![r] =
       IF RoleOf(n) # "leader"
         THEN [PutIdle EXCEPT !.pc = "rejected", !.node = n, !.status = 403]
       ELSE [pc |-> "stamped", node |-> n, e |-> Entry(k, ValueOf(r), clock),
             status |-> 0]]
  /\ UNCHANGED <<kvVars, muVars, mode, clock, store, blocked, task, reply>>

\* handlePut up to the timestamp: the role check, the empty key check,
\* `TS: time.Now().UTC()`.
PutReceive(r, n, k) ==
  /\ put[r].pc = "idle"
  /\ \A q \in Puts : q < r => put[q].pc # "idle"
  /\ k \in KeyChoice
  /\ put' = [put EXCEPT ![r] =
       IF RoleOf(n) # "leader"
         THEN [PutIdle EXCEPT !.pc = "rejected", !.node = n, !.status = 403]
       ELSE IF k = ""
         THEN [PutIdle EXCEPT !.pc = "rejected", !.node = n, !.status = 400]
       ELSE [pc |-> "stamped", node |-> n, e |-> Entry(k, ValueOf(r), clock),
             status |-> 0]]
  /\ UNCHANGED <<kvVars, muVars, mode, clock, store, blocked, task, reply>>

\* `s.store.Upsert(entry)`, but for the history.
PutMerge(r) ==
  /\ put[r].pc = "stamped"
  /\ store' = [store EXCEPT ![put[r].node] = Upsert(@, put[r].e)]
  /\ put' = [put EXCEPT ![r].pc = "merged"]
  /\ UNCHANGED <<kvVars, muVars, mode, clock, blocked, task, reply>>

\* `s.store.Upsert(entry)`
PutUpsert(r) == PutMerge(r) /\ UNCHANGED hist

\* A handler that may broadcast before its local Upsert.
PutBroadcastEarly(r) ==
  /\ put[r].pc \in {"stamped", "merged"}
  /\ put' = [put EXCEPT ![r].pc = "dispatched"]
  /\ task' = [task EXCEPT ![r] =
       [p \in Followers |-> IF p \in PeersOf(put[r].node) THEN "ready" ELSE task[r][p]]]
  /\ UNCHANGED <<fixed, clock, store, blocked>>

\* `go s.broadcastReplication(replReq)` in async mode, the plain call
\* otherwise; then broadcastReplication's loop: wg.Add(1) and one goroutine
\* per peer.
PutBroadcast(r) ==
  /\ put[r].pc = "merged"
  /\ put' = [put EXCEPT ![r].pc = "dispatched"]
  /\ task' = [task EXCEPT ![r] =
       [p \in Followers |-> IF p \in PeersOf(put[r].node) THEN "ready" ELSE task[r][p]]]
  /\ UNCHANGED <<fixed, clock, store, blocked>>

\* A broadcast that never waits.
WgWaitNever(r) == TRUE

\* `if s.cfg.Mode == cluster.Sync { wg.Wait() }`: what lets a broadcast whose
\* goroutines are launched return.
WgWait(r) ==
  mode = Sync => \A p \in PeersOf(put[r].node) : task[r][p] \in Terminal

\* A handler that waits for its broadcast in every mode.
MayRespondAfterWait(r) == \A p \in PeersOf(put[r].node) : task[r][p] \in Terminal

\* What lets handlePut reach respondJSON: nothing to wait for after the go
\* statement in async mode, the return of broadcastReplication otherwise.
MayRespond(r) == mode = Async \/ WgWait(r)

\* A handler that reports a failed delivery to the client.
PutRespondByOutcome(r) ==
  /\ put[r].pc = "dispatched"
  /\ MayRespond(r)
  /\ put' = [put EXCEPT ![r].pc = "acked",
                        ![r].status = IF \E p \in Followers : task[r][p] = "failed"
                                      THEN 502 ELSE 200]
  /\ UNCHANGED <<fixed, clock, store, blocked, task>>

\* `s.respondJSON(w, http.StatusOK, PutResponse{Status: "ok", ...})`
PutRespond(r) ==
  /\ put[r].pc = "dispatched"
  /\ MayRespond(r)
  /\ put' = [put EXCEPT ![r].pc = "acked", ![r].status = 200]
  /\ UNCHANGED <<fixed, clock, store, blocked, task>>

\* A task that does not look at BlockPeers.
IsBlockedNever(n, p) == FALSE

\* `s.cfg.BlockPeers[url]`, read under s.mu.
IsBlocked(n, p) == p \in blocked[n]

\* A broadcast that gives up on the peers it has not yet looked at when it
\* finds one peer blocked.
TaskCheckAbortAll(r, p) ==
  /\ task[r][p] = "ready"
  /\ task' = [task EXCEPT ![r] =
       IF IsBlocked(put[r].node, p)
         THEN [x \in Followers |-> IF task[r][x] = "ready" THEN "skipped" ELSE task[r][x]]
         ELSE [@ EXCEPT ![p] = "unblocked"]]
  /\ UNCHANGED <<fixed, clock, store, blocked, put>>

\* The goroutine's check: lock, read, unlock; when blocked, log and return.
TaskCheck(r, p) ==
  /\ task[r][p] = "ready"
  /\ task' = [task EXCEPT ![r][p] =
       IF IsBlocked(put[r].node, p) THEN "skipped" ELSE "unblocked"]
  /\ UNCHANGED <<fixed, clock, store, blocked, put>>

\* A goroutine that logs the skip and goes on to send all the same.
TaskPostDespiteSkip(r, p) ==
  /\ task[r][p] \in {"unblocked", "skipped"}
  /\ task' = [task EXCEPT ![r][p] = "inflight"]
  /\ UNCHANGED <<fixed, clock, store, blocked, put>>

\* repl.PostReplicate: marshal the request, client.Post: the request is on
\* the wire and the client's timeout starts.
TaskPost(r, p) ==
  /\ task[r][p] = "unblocked"
  /\ task' = [task EXCEPT ![r][p] = "inflight"]
  /\ UNCHANGED <<fixed, clock, store, blocked, put>>

\* A goroutine that tries again after a failed Post.
TaskFailRetry(r, p, late) ==
  /\ task[r][p] = "inflight"
  /\ task' = [task EXCEPT ![r][p] = IF late THEN "late" ELSE "unblocked"]
  /\ UNCHANGED <<fixed, clock, store, blocked, put>>

\* client.Post returns an error before the peer has handled the request: a
\* network error, or the client's timeout.  The request is lost, or (late)
\* still reaches the peer afterwards.
TaskFail(r, p, late) ==
  /\ task[r][p] = "inflight"
  /\ task' = [task EXCEPT ![r][p] = IF late THEN "late" ELSE "failed"]
  /\ UNCHANGED <<fixed, clock, store, blocked, put>>

\* A leader that applies what it is sent.
ReplicateStoreAnyRole(n, data, e) == Upsert(data, e)

\* A follower that acknowledges without applying.
ReplicateStoreDropped(n, data, e) == data

\* handleReplicate's effect on the node's store: none on a leader (403),
\* `s.store.Upsert(entry)` on any other node.
ReplicateStore(n, data, e) ==
  IF RoleOf(n) = "leader" THEN data ELSE Upsert(data, e)

\* handleReplicate's status code.
ReplicateStatus(n) == IF RoleOf(n) = "leader" THEN 403 ELSE 200

\* PostReplicate's result for a response the client got: nil for 200, an
\* error for any other status.
PostResult(status) == IF status = 200 THEN "ok" ELSE "failed"

\* Peer p holds for e's key an entry strictly newer than e: Upsert drops e.
Stale(p, e) ==
  /\ e.key \in DOMAIN store[p]
  /\ Before(e.ts, store[p][e.key].ts)

\* A follower that answers 409 when the merge dropped the entry.
FollowerReplicateConflict(r, p, heard) ==
  /\ task[r][p] \in {"inflight", "late"}
  /\ store' = [store EXCEPT ![p] = ReplicateStore(p, @, put[r].e)]
  /\ task' = [task EXCEPT ![r][p] =
       IF task[r][p] = "inflight" /\ heard
         THEN PostResult(IF Stale(p, put[r].e) THEN 409 ELSE ReplicateStatus(p))
         ELSE "failed"]
  /\ UNCHANGED <<fixed, clock, blocked, put>>

\* The peer's handleReplicate runs on the request of put r: decode, Upsert,
\* respond.  PostReplicate then gets the response (heard), or fails for the
\* network or the timeout all the same; a late request is answered to no one.
FollowerReplicate(r, p, heard) ==
  /\ task[r][p] \in {"inflight", "late"}
  /\ store' = [store EXCEPT ![p] = ReplicateStore(p, @, put[r].e)]
  /\ task' = [task EXCEPT ![r][p] =
       IF task[r][p] = "inflight" /\ heard THEN PostResult(ReplicateStatus(p))
                                          ELSE "failed"]
  /\ UNCHANGED <<fixed, clock, blocked, put>>

\* What a replicate request that is not the leader's may carry: any key, the
\* empty one included (handleReplicate decodes and does not look at the key).
DirectKeys == {"k1", ""}
DirectEntries == {Entry(k, "x", t) : k \in DirectKeys, t \in 1..MaxClock}

\* handleReplicate on node n for a request with entry e that any client of
\* the HTTP port sent: the role check, Upsert, the answer.
ReplicateDirect(n, e) ==
  /\ store' = [store EXCEPT ![n] = ReplicateStore(n, @, e)]
  /\ reply' = [node |-> n, status |-> ReplicateStatus(n)]
  /\ UNCHANGED <<kvVars, muVars, mode, hist, clock, blocked, put, task>>

\* A handler whose block= flips the peer's membership.
PartitionToggle(n, b, u) ==
  /\ blocked' = [blocked EXCEPT ![n] =
       (IF b = "" THEN @ ELSE IF b \in @ THEN @ \ {b} ELSE @ \cup {b})
         \ (IF u # "" THEN {u} ELSE {})]
  /\ UNCHANGED <<fixed, clock, store, put, task>>

\* handlePartition on node n with block=b and unblock=u, under s.mu.
Partition(n, b, u) ==
  /\ blocked' = [blocked EXCEPT ![n] =
       (@ \cup (IF b # "" THEN {b} ELSE {})) \ (IF u # "" THEN {u} ELSE {})]
  /\ UNCHANGED <<fixed, clock, store, put, task>>

\* Time passes.  Every other step takes no time.
Tick ==
  /\ clock < MaxClock
  /\ clock' = clock + 1
  /\ UNCHANGED <<fixed, store, blocked, put, task>>

\* The steps of the cluster after a put is merged, and those of its
\* environment.
Steps ==
  \/ \E r \in Puts : PutBroadcast(r)
  \/ \E r \in Puts : PutRespond(r)
  \/ \E r \in Puts, p \in Followers : TaskCheck(r, p)
  \/ \E r \in Puts, p \in Followers : TaskPost(r, p)
  \/ \E r \in Puts, p \in Followers, late \in BOOLEAN : TaskFail(r, p, late)
  \/ \E r \in Puts, p \in Followers, heard \in BOOLEAN : FollowerReplicate(r, p, heard)
  \/ \E b \in PeerArgs, u \in PeerArgs : Partition(Leader, b, u)
  \/ Tick

\* The steps of the cluster other than the arrival of a put request.
Run ==
  \/ \E r \in Puts : PutUpsert(r)
  \/ Steps

Next ==
  \/ \E r \in Puts, n \in Nodes, k \in PutKeys :
       PutReceive(r, n, k) /\ UNCHANGED hist
  \/ Run

\* Next, keeping the history of the peers blocked when a request came in.
Tracked == {"f1"}
NextTraced ==
  \/ \E r \in Puts, n \in Nodes, k \in PutKeys :
       PutReceive(r, n, k) /\ hist' = [hist EXCEPT ![r] = blocked[n] \cap Tracked]
  \/ Run

Spec == Init /\ [][Next]_vars

\* The cluster with a leader started with -mode sync, or with -mode async.
InitSync  == Init /\ mode = Sync
InitAsync == Init /\ mode = Async
SpecSync  == InitSync /\ [][Next]_vars
SpecAsync == InitAsync /\ [][Next]_vars
SpecSyncTraced == InitSync /\ [][NextTraced]_vars

\* The nodes' stores under puts and under replicate requests sent to any node
\* from outside.  The broadcasts of the puts are left out: the role check of
\* handleReplicate and the node's own store are all a request meets.
NextDirect ==
  \/ \E r \in Puts, n \in Nodes, k \in PutKeys :
       PutReceive(r, n, k) /\ UNCHANGED hist
  \/ \E r \in Puts : PutUpsert(r)
  \/ Tick
  \/ \E n \in Nodes, e \in DirectEntries : ReplicateDirect(n, e)
SpecDirect == InitSync /\ [][NextDirect]_vars

\* The nodes' stores and blocked sets under puts and under partition requests
\* sent to any node, the followers included.  The broadcasts of the puts are
\* left out: handlePartition reads and writes BlockPeers only.
NextPartition ==
  \/ \E r \in Puts, n \in Nodes, k \in PutKeys :
       PutReceive(r, n, k) /\ UNCHANGED hist
  \/ \E r \in Puts : PutUpsert(r)
  \/ Tick
  \/ \E n \in Nodes, b \in PeerArgs, u \in PeerArgs : Partition(n, b, u)
SpecPartition == InitSync /\ [][NextPartition]_vars

\* Next, keeping the history of the peers blocked when a put was merged.
NextMerged ==
  \/ \E r \in Puts, n \in Nodes, k \in PutKeys :
       PutReceive(r, n, k) /\ UNCHANGED hist
  \/ \E r \in Puts :
       PutMerge(r) /\ hist' = [hist EXCEPT ![r] = blocked[put[r].node] \cap Tracked]
  \/ Steps
SpecSyncMerged == InitSync /\ [][NextMerged]_vars

\* ---------------------------------- SpecFilter: the leader's mu and BlockPeers
\* A request or a goroutine that will go to BlockPeers starts.  They are
\* numbered in the order of their start.
FilterCall(a, c) ==
  /\ acc[a].pc = "idle"
  /\ \A q \in Accessors : q < a => acc[q].pc # "idle"
  /\ c \in AccCalls
  /\ acc' = [acc EXCEPT ![a] = c]
  /\ UNCHANGED <<kvVars, mode, clock, store, blocked, put, task, hist, reply, smu>>

\* A Server whose Lock never waits.
SMuFreeIgnored == TRUE

\* `s.mu.Lock()` returns only when no one holds s.mu.
SMuFree == smu = 0

\* `s.mu.Lock()` of handlePartition, of handleStatus and of the goroutine.
SMuLock(a) ==
  /\ acc[a].pc = "call"
  /\ SMuFree
  /\ smu' = a
  /\ acc' = [acc EXCEPT ![a].pc = "locked"]
  /\ UNCHANGED <<kvVars, mode, clock, store, blocked, put, task, hist, reply>>

\* `if blockPeer != "" { s.cfg.BlockPeers[blockPeer] = true }`
PartitionBlock(a) ==
  /\ acc[a].kind = "partition"
  /\ acc[a].pc = "locked"
  /\ blocked' = [blocked EXCEPT ![Leader] =
       @ \cup (IF acc[a].b # "" THEN {acc[a].b} ELSE {})]
  /\ acc' = [acc EXCEPT ![a].pc = "blockDone"]
  /\ UNCHANGED <<kvVars, mode, clock, store, put, task, hist, reply, smu>>

\* `if unblockPeer != "" { delete(s.cfg.BlockPeers, unblockPeer) }`
PartitionUnblock(a) ==
  /\ acc[a].kind = "partition"
  /\ acc[a].pc = "blockDone"
  /\ blocked' = [blocked EXCEPT ![Leader] =
       @ \ (IF acc[a].u # "" THEN {acc[a].u} ELSE {})]
  /\ acc' = [acc EXCEPT ![a].pc = "unblockDone"]
  /\ UNCHANGED <<kvVars, mode, clock, store, put, task, hist, reply, smu>>

\* `s.respondJSON(w, http.StatusOK, s.cfg.BlockPeers)` and the deferred
\* `s.mu.Unlock()`.
PartitionRespond(a) ==
  /\ acc[a].kind = "partition"
  /\ acc[a].pc = "unblockDone"
  /\ acc' = [acc EXCEPT ![a].pc = "done", ![a].seen = blocked[Leader]]
  /\ smu' = IF smu = a THEN 0 ELSE smu
  /\ UNCHANGED <<kvVars, mode, clock, store, blocked, put, task, hist, reply>>

\* One round of `for k, v := range s.cfg.BlockPeers { blocked[k] = v }`, in
\* any order of the keys.
StatusCopy(a, k) ==
  /\ acc[a].kind = "status"
  /\ acc[a].pc = "locked"
  /\ k \in blocked[Leader] \ acc[a].seen
  /\ acc' = [acc EXCEPT ![a].seen = @ \cup {k}]
  /\ UNCHANGED <<kvVars, mode, clock, store, blocked, put, task, hist, reply, smu>>

\* The loop is through: `s.mu.Unlock()`, and the copy goes into the answer.
StatusUnlock(a) ==
  /\ acc[a].kind = "status"
  /\ acc[a].pc = "locked"
  /\ blocked[Leader] \subseteq acc[a].seen
  /\ acc' = [acc EXCEPT ![a].pc = "done"]
  /\ smu' = IF smu = a THEN 0 ELSE smu
  /\ UNCHANGED <<kvVars, mode, clock, store, blocked, put, task, hist, reply>>

\* `isBlocked := s.cfg.BlockPeers[url]`
CheckRead(a) ==
  /\ acc[a].kind = "check"
  /\ acc[a].pc = "locked"
  /\ acc' = [acc EXCEPT ![a].pc = "read",
                        ![a].seen = IF IsBlocked(Leader, acc[a].b) THEN {acc[a].b} ELSE {}]
  /\ UNCHANGED <<kvVars, mode, clock, store, blocked, put, task, hist, reply, smu>>

\* `s.mu.Unlock()` of the goroutine.
CheckUnlock(a) ==
  /\ acc[a].kind = "check"
  /\ acc[a].pc = "read"
  /\ acc' = [acc EXCEPT ![a].pc = "done"]
  /\ smu' = IF smu = a THEN 0 ELSE smu
  /\ UNCHANGED <<kvVars, mode, clock, store, blocked, put, task, hist, reply>>

\* The leader's Server under partition requests, status requests and the
\* checks of broadcast goroutines, statement by statement.
NextFilter ==
  \/ \E a \in Accessors, c \in AccCalls : FilterCall(a, c)
  \/ \E a \in Accessors : SMuLock(a)
  \/ \E a \in Accessors : PartitionBlock(a)
  \/ \E a \in Accessors : PartitionUnblock(a)
  \/ \E a \in Accessors : PartitionRespond(a)
  \/ \E a \in Accessors, k \in Followers : StatusCopy(a, k)
  \/ \E a \in Accessors : StatusUnlock(a)
  \/ \E a \in Accessors : CheckRead(a)
  \/ \E a \in Accessors : CheckUnlock(a)
SpecFilter == InitSync /\ [][NextFilter]_vars

\* ------------------------- SpecLocks: the leader's s.mu and kv.mu together
\* The names whose JSON encoding the buffers between a handler and its
\* client's connection take without the client reading (BlockPeers takes any
\* string of the query as a name, of any length).
RespBuffer == 1

\* Besides those of AccCalls, the handlers that go to the store: the Upsert
\* of handlePut or of handleReplicate, and the Get of handleGet.
LockCalls ==
  AccCalls
  \cup {[pc |-> "kcall", kind |-> k, b |-> "", u |-> "", seen |-> {}] :
          k \in {"upsert", "get"}}

\* What no step at the two locks changes.
lockFixed == <<kvData, kvTask, kvLog, kvSnap, mode, clock, store, put, task, hist, reply>>

\* A request or a goroutine starts.
LockCall(a, c) ==
  /\ acc[a].pc = "idle"
  /\ \A q \in Accessors : q < a => acc[q].pc # "idle"
  /\ c \in LockCalls
  /\ acc' = [acc EXCEPT ![a] = c]
  /\ UNCHANGED <<lockFixed, kvMu, blocked, smu>>

\* `s.respondJSON(w, http.StatusOK, s.cfg.BlockPeers)` of handlePartition,
\* with s.mu held until the handler returns: json's Encode(w) writes the set
\* to the response; what the buffers do not take waits for the client.
PartitionEncode(a) ==
  /\ acc[a].kind = "partition"
  /\ acc[a].pc = "unblockDone"
  /\ acc' = [acc EXCEPT ![a].seen = blocked[Leader],
                        ![a].pc = IF Cardinality(blocked[Leader]) > RespBuffer
                                    THEN "sending" ELSE "encoded"]
  /\ UNCHANGED <<lockFixed, kvMu, blocked, smu>>

\* The client of a partition request reads its connection: Encode returns.
\* (http.ListenAndServe sets no write timeout.)
ClientTakes(a) ==
  /\ acc[a].pc = "sending"
  /\ acc' = [acc EXCEPT ![a].pc = "encoded"]
  /\ UNCHANGED <<lockFixed, kvMu, blocked, smu>>

\* handlePartition returns: the deferred `s.mu.Unlock()`.
PartitionReturn(a) ==
  /\ acc[a].pc = "encoded"
  /\ acc' = [acc EXCEPT ![a].pc = "answered"]
  /\ smu' = IF smu = a THEN 0 ELSE smu
  /\ UNCHANGED <<lockFixed, kvMu, blocked>>

\* The callers of RLock that are between it and their RUnlock.
StoreReaders == {x \in Accessors : acc[x].pc = "rlocked"}

\* `kv.mu.RLock()` of Get, and of the Snapshot handleStatus calls after its
\* `s.mu.Unlock()`.
StoreRLock(a) ==
  /\ \/ acc[a].kind = "get" /\ acc[a].pc = "kcall"
     \/ acc[a].kind = "status" /\ acc[a].pc = "done"
  /\ kvMu = 0
  /\ acc' = [acc EXCEPT ![a].pc = "rlocked"]
  /\ UNCHANGED <<lockFixed, kvMu, blocked, smu>>

\* The deferred `kv.mu.RUnlock()`; the handler answers after it.
StoreRUnlock(a) ==
  /\ acc[a].pc = "rlocked"
  /\ acc' = [acc EXCEPT ![a].pc = "answered"]
  /\ UNCHANGED <<lockFixed, kvMu, blocked, smu>>

\* `kv.mu.Lock()` of Upsert.
StoreLock(a) ==
  /\ acc[a].kind = "upsert"
  /\ acc[a].pc = "kcall"
  /\ kvMu = 0
  /\ StoreReaders = {}
  /\ kvMu' = a
  /\ acc' = [acc EXCEPT ![a].pc = "wlocked"]
  /\ UNCHANGED <<lockFixed, blocked, smu>>

\* The deferred `kv.mu.Unlock()` of Upsert.
StoreUnlock(a) ==
  /\ acc[a].pc = "wlocked"
  /\ kvMu' = IF kvMu = a THEN 0 ELSE kvMu
  /\ acc' = [acc EXCEPT ![a].pc = "answered"]
  /\ UNCHANGED <<lockFixed, blocked, smu>>

\* `repl.PostReplicate(s.client, url, req)` of a goroutine whose check found
\* its peer not blocked: the request is on the wire.
CheckPost(a) ==
  /\ acc[a].kind = "check"
  /\ acc[a].pc = "done"
  /\ acc[a].seen = {}
  /\ acc' = [acc EXCEPT ![a].pc = "posting"]
  /\ UNCHANGED <<lockFixed, kvMu, blocked, smu>>

\* client.Post returns, with the peer's answer or with an error.
PostReturns(a) ==
  /\ acc[a].pc = "posting"
  /\ acc' = [acc EXCEPT ![a].pc = "answered"]
  /\ UNCHANGED <<lockFixed, kvMu, blocked, smu>>

\* The leader's handlers and goroutines at its two locks, statement by
\* statement.
NextLocks ==
  \/ \E a \in Accessors, c \in LockCalls : LockCall(a, c)
  \/ \E a \in Accessors : SMuLock(a)
  \/ \E a \in Accessors : PartitionBlock(a)
  \/ \E a \in Accessors : PartitionUnblock(a)
  \/ \E a \in Accessors : PartitionEncode(a)
  \/ \E a \in Accessors : ClientTakes(a)
  \/ \E a \in Accessors : PartitionReturn(a)
  \/ \E a \in Accessors, k \in Followers : StatusCopy(a, k)
  \/ \E a \in Accessors : StatusUnlock(a)
  \/ \E a \in Accessors : CheckRead(a)
  \/ \E a \in Accessors : CheckUnlock(a)
  \/ \E a \in Accessors : CheckPost(a)
  \/ \E a \in Accessors : PostReturns(a)
  \/ \E a \in Accessors : StoreRLock(a)
  \/ \E a \in Accessors : StoreRUnlock(a)
  \/ \E a \in Accessors : StoreLock(a)
  \/ \E a \in Accessors : StoreUnlock(a)
SpecLocks == InitSync /\ [][NextLocks]_vars

\* A step of a handler or of a goroutine that is ready to run, and the
\* handling by a peer of a request on the wire.
Progress ==
  \/ \E r \in Puts : PutUpsert(r)
  \/ \E r \in Puts : PutBroadcast(r)
  \/ \E r \in Puts : PutRespond(r)
  \/ \E r \in Puts, p \in Followers : TaskCheck(r, p)
  \/ \E r \in Puts, p \in Followers : TaskPost(r, p)
  \/ \E r \in Puts, p \in Followers, heard \in BOOLEAN : FollowerReplicate(r, p, heard)

\* The Go scheduler runs a goroutine that is ready, and a peer handles a
\* request it was sent: while some such step can be taken, one is taken in the
\* end.  Nothing makes a client send a request, the network fail, an operator
\* change the partition or the clock advance.
Fairness == WF_vars(Progress)
SpecAsyncFair == InitAsync /\ [][Next]_vars /\ Fairness
SpecSyncFair == InitSync /\ [][Next]_vars /\ Fairness

\* One store alone: the cluster stands still.
InitKV == KvInit /\ mode = Sync /\ ClusterFrozen
SpecKV == InitKV /\ [][KvNext]_vars

\* One store with callers of Upsert and a caller of Snapshot.
NextSnapshot ==
  \/ KvNext
  \/ SnapRLock
  \/ \E k \in Keys : SnapCopy(k)
  \/ SnapReturn
  \/ \E e \in SnapEdits : SnapMutate(e)
SpecSnapshot == InitKV /\ [][NextSnapshot]_vars

\* ------------------------------------------------- SpecKV: the properties
KvLogIdx == 1..Len(kvLog)
KvQuiet == \A t \in KvTasks : kvTask[t].pc \in {"idle", "done"}
KvOfferedFor(k) == {i \in KvLogIdx : kvLog[i].e.key = k}
KvMaxTs(k) == CHOOSE m \in {kvLog[i].e.ts : i \in KvOfferedFor(k)} :
                \A i \in KvOfferedFor(k) : kvLog[i].e.ts <= m
KvLastOfMax(k) == CHOOSE i \in KvOfferedFor(k) :
                    /\ kvLog[i].e.ts = KvMaxTs(k)
                    /\ \A j \in KvOfferedFor(k) : kvLog[j].e.ts = KvMaxTs(k) => j <= i

\* C1, LWW dominance: whenever the store holds a key, the stored entry's
\* timestamp is at least the timestamp of every entry Upsert has merged for
\* that key so far (and a key once merged is present).
C1_LwwDominance ==
  \A i \in KvLogIdx :
    /\ kvLog[i].e.key \in DOMAIN kvData
    /\ kvData[kvLog[i].e.key].ts >= kvLog[i].e.ts

\* C1's case: an entry older than one merged before it has been merged.
C1_Witness ==
  \E i, j \in KvLogIdx :
    /\ i < j
    /\ kvLog[i].e.key = kvLog[j].e.key
    /\ kvLog[j].e.ts < kvLog[i].e.ts
    /\ kvData[kvLog[i].e.key].ts = kvLog[i].e.ts

\* C2, LWW convergence under interleaving: once every Upsert that was called
\* has returned, each key holds the greatest timestamp offered for it, with
\* the value of the last call applied among those that carry that timestamp.
C2_LwwConvergence ==
  KvQuiet =>
    \A k \in Keys :
      KvOfferedFor(k) # {} =>
        /\ k \in DOMAIN kvData
        /\ kvData[k].ts = KvMaxTs(k)
        /\ kvData[k] = kvLog[KvLastOfMax(k)].e

\* C2's case: three concurrent calls for one key have all returned, two of
\* them with the greatest timestamp and different values, and the call with
\* the smaller timestamp was applied last.
C2_Witness ==
  /\ \A t \in KvTasks : kvTask[t].pc = "done"
  /\ \E k \in Keys :
       /\ Cardinality(KvOfferedFor(k)) >= 3
       /\ \E i, j, l \in KvOfferedFor(k) :
            /\ i < j /\ j < l
            /\ kvLog[i].e.ts = KvMaxTs(k)
            /\ kvLog[j].e.ts = KvMaxTs(k)
            /\ kvLog[i].e.value # kvLog[j].e.value
            /\ kvLog[l].e.ts < KvMaxTs(k)
            /\ kvData[k] = kvLog[j].e

\* C3, idempotence: an Upsert of the entry the previous Upsert was given
\* leaves the store as that previous Upsert left it; and on the store as it
\* is, Upsert of any entry twice equals Upsert of it once.
C3_Idempotent ==
  /\ \A i \in KvLogIdx :
       (i > 1 /\ kvLog[i].e = kvLog[i - 1].e) => kvLog[i].after = kvLog[i - 1].after
  /\ \A e \in KvEntries : Upsert(Upsert(kvData, e), e) = Upsert(kvData, e)

\* C3's case: the same entry merged twice in a row, the first merge being a
\* discarded stale write and the store holding something.
C3_Witness ==
  \E i \in KvLogIdx :
    /\ i > 1
    /\ kvLog[i].e = kvLog[i - 1].e
    /\ kvLog[i - 1].before # <<>>
    /\ kvLog[i - 1].after = kvLog[i - 1].before
    /\ KvQuiet

\* C4, stale-write rejection: an Upsert whose entry is strictly older than the
\* entry stored for its key leaves the whole map as it was; the call then
\* returns (Upsert has no error to give).
C4_StaleRejected ==
  \A i \in KvLogIdx :
    LET cur == Lookup(kvLog[i].before, kvLog[i].e.key) IN
    (cur.ok /\ Before(kvLog[i].e.ts, cur.e.ts)) => kvLog[i].after = kvLog[i].before

\* C4's case: a stale write for a key, with another key present, has returned.
C4_Witness ==
  /\ KvQuiet
  /\ \E i \in KvLogIdx :
       LET cur == Lookup(kvLog[i].before, kvLog[i].e.key) IN
       /\ cur.ok
       /\ Before(kvLog[i].e.ts, cur.e.ts)
       /\ cur.e.value # kvLog[i].e.value
       /\ DOMAIN kvLog[i].before = Keys
       /\ kvData = kvLog[i].before

\* ---------------------------------------------------- Spec: the properties
Acked(r) == put[r].pc = "acked"

\* Node n holds for e's key an entry at least as new as e.
Has(n, e) == e.key \in DOMAIN store[n] /\ store[n][e.key].ts >= e.ts

\* C5, sync attempted-completion: a sync leader has answered a put only when
\* the goroutine of every peer has reached its outcome: skipped, success or
\* failure.
C5_SyncAttemptedCompletion ==
  mode = Sync =>
    \A r \in Puts : Acked(r) =>
      \A p \in PeersOf(put[r].node) : task[r][p] \in Terminal

\* C5's case: a sync write answered after one peer was skipped and the other
\* delivered to.
C5_Witness ==
  /\ mode = Sync
  /\ \E r \in Puts : Acked(r) /\ task[r]["f1"] = "skipped" /\ task[r]["f2"] = "ok"

\* C6, the README's sync guarantee: when a sync leader answers ok, every
\* follower holds for the key an entry at least as new as the write.
C6_SyncAllApplied ==
  mode = Sync =>
    \A r \in Puts : Acked(r) => \A p \in Followers : Has(p, put[r].e)

\* C7, a sync write during a partition waits for the timeout: a write that
\* came in while a peer was blocked is answered only after time has passed
\* (the client's timeout) and the leader has given up on that peer's request.
C7_SyncWaitsForTimeout ==
  mode = Sync =>
    \A r \in Puts : \A p \in hist[r] :
      Acked(r) => (clock > put[r].e.ts /\ task[r][p] \in {"failed", "late"})

\* C8, async non-blocking: once an async leader has merged a write, nothing
\* stands between its handler and the ok response: the go statement and then
\* the response are enabled whatever the goroutines of the peers have done.
C8_AsyncNonBlocking ==
  mode = Async =>
    \A r \in Puts :
      /\ put[r].pc = "merged" => ENABLED PutBroadcast(r)
      /\ put[r].pc = "dispatched" => ENABLED PutRespond(r)

\* C8's case: an async write is answered while no goroutine of it has even
\* looked at its peer.
C8_Witness ==
  /\ mode = Async
  /\ \E r \in Puts : Acked(r) /\ \A p \in Followers : task[r][p] = "ready"

\* Put r is answered in async mode and peer p neither holds its entry (or a
\* newer one for its key) nor was skipped as blocked or failed to be reached.
Owed(r, p) ==
  /\ mode = Async
  /\ Acked(r)
  /\ task[r][p] \notin {"skipped", "failed"}
  /\ ~Has(p, put[r].e)

Reaches(r, p) ==
  \/ TaskPost(r, p)
  \/ \E heard \in BOOLEAN : FollowerReplicate(r, p, heard)

\* C10 as claimed, partition isolation: no request is sent to a peer, and none
\* arrives at it, while the peer is in the leader's blocked set.
C10_IsolatedWhileBlocked ==
  [][\A r \in Puts, p \in Followers : p \in blocked[Leader] => ~Reaches(r, p)]_vars

\* C10 as amended: a goroutine that finds its peer blocked at its check ends
\* as skipped, for good and without a request; a request is sent only by a
\* goroutine whose check found the peer not blocked.
C10_IsolatedAtCheck ==
  [][\A r \in Puts, p \in Followers :
       /\ (task[r][p] = "ready" /\ task'[r][p] # "ready") =>
            task'[r][p] = (IF p \in blocked[put[r].node] THEN "skipped" ELSE "unblocked")
       /\ Reaches(r, p) => task[r][p] \in {"unblocked", "inflight", "late"}
       /\ task[r][p] = "skipped" => (task'[r][p] = "skipped" /\ ~Reaches(r, p))]_vars

\* C10's case: of one write, the blocked peer was skipped and holds nothing
\* while the other peer got the write.
C10_Witness ==
  \E r \in Puts :
    /\ task[r]["f1"] = "skipped"
    /\ "f1" \in blocked[Leader]
    /\ store["f1"] = <<>>
    /\ task[r]["f2"] = "ok"
    /\ Has("f2", put[r].e)

\* Peer p holds the very entry of put r.
Holds(p, r) ==
  /\ put[r].e.key \in DOMAIN store[p]
  /\ store[p][put[r].e.key] = put[r].e

\* C11 as claimed, no retroactive delivery: a write merged by the leader
\* while a peer was blocked never appears in that peer's store, during the
\* block or after it.
C11_NeverDeliveredIfBlockedAtMerge ==
  \A r \in Puts : \A p \in hist[r] : ~Holds(p, r)

\* C11 as amended: a write whose goroutine found the peer blocked (skipped it)
\* never appears in that peer's store, during the block or after it: the
\* task stays skipped for good, and the peer does not hold the write's entry
\* before or after any step (its entry for the key is absent or another
\* write's).
C11_NeverDeliveredIfSkipped ==
  [][\A r \in Puts, p \in Followers :
       task[r][p] = "skipped" =>
         /\ ~Holds(p, r)
         /\ task'[r][p] = "skipped"
         /\ ~Holds(p, r)']_vars

\* C11's case: a write merged while f1 was blocked was skipped for f1 and
\* answered, f1 is unblocked since, the other peer holds the write and f1
\* holds nothing.
C11_Witness ==
  \E r \in Puts :
    /\ "f1" \in hist[r]
    /\ task[r]["f1"] = "skipped"
    /\ Acked(r)
    /\ "f1" \notin blocked[Leader]
    /\ Holds("f2", r)
    /\ store["f1"] = <<>>

C13_NeverEscalated ==
  \A r \in Puts :
    put[r].pc \in {"merged", "dispatched", "acked"} =>
      /\ put[r].status = (IF Acked(r) THEN 200 ELSE 0)
      /\ Has(put[r].node, put[r].e)

\* C13's case: a put is answered after one peer was skipped and the delivery
\* to the other failed.
C13_Witness ==
  \E r \in Puts :
    /\ Acked(r)
    /\ put[r].status = 200
    /\ task[r]["f1"] = "skipped"
    /\ task[r]["f2"] = "failed"
    /\ Holds(Leader, r)

\* The answer of put r is a rejection.
Rejected(r) == put[r].status \in {400, 403}

\* C14, client write rejection without mutation: a put request that comes to
\* a node that is not a leader, or with an empty key, is answered in that
\* step with 403 or 400 and changes no store and no goroutine; a rejected put
\* stays as it is, with no goroutine of its own, while the stores change only
\* by other requests.
C14_PutRejectedNoMutation ==
  [][/\ \A r \in Puts, n \in Nodes, k \in PutKeys :
          (PutReceive(r, n, k) /\ (RoleOf(n) # "leader" \/ k = "")) =>
            /\ put'[r].status = (IF RoleOf(n) # "leader" THEN 403 ELSE 400)
            /\ put'[r].node = n
            /\ store' = store
            /\ task' = task
     /\ \A r \in Puts :
          Rejected(r) =>
            /\ put'[r] = put[r]
            /\ \A p \in Followers : task[r][p] = "none" /\ task'[r][p] = "none"
            /\ store'[put[r].node] # store[put[r].node] =>
                 \E q \in Puts \ {r} : put[q].pc \notin {"idle", "rejected"}]_vars

\* C14's case: a put with an empty key rejected by the leader and a put
\* rejected by a follower, with no store changed and no goroutine launched.
C14_Witness ==
  \E q, r \in Puts :
    /\ put[q].node = Leader /\ put[q].status = 400
    /\ put[r].node = "f1" /\ put[r].status = 403
    /\ store = [n \in Nodes |-> <<>>]
    /\ \A x \in Puts, p \in Followers : task[x][p] = "none"

\* C15, replicated-write rejection on a leader: a replicate request handled
\* by the leader is answered 403 and changes no store; handled by a follower
\* it is answered 200 and the follower then holds the entry, or a newer one
\* for its key, no other node's store changing.
C15_ReplicateRejectedOnLeader ==
  [][\A n \in Nodes, e \in DirectEntries :
       ReplicateDirect(n, e) =>
         IF RoleOf(n) = "leader"
           THEN reply' = [node |-> n, status |-> 403] /\ store' = store
           ELSE /\ reply' = [node |-> n, status |-> 200]
                /\ e.key \in DOMAIN store'[n]
                /\ store'[n][e.key].ts >= e.ts
                /\ \A m \in Nodes \ {n} : store'[m] = store[m]]_vars

\* C15's case: the leader, holding an older entry for a key, has rejected a
\* replicate request at a time when a newer one could be sent, and a follower
\* holds an entry it got by such a request.
C15_Witness ==
  /\ reply = [node |-> Leader, status |-> 403]
  /\ clock = MaxClock
  /\ "k1" \in DOMAIN store[Leader]
  /\ store[Leader]["k1"].ts < clock
  /\ \E p \in Followers : "k1" \in DOMAIN store[p] /\ store[p]["k1"].value = "x"

\* How far a goroutine has come: not launched, launched, past its check,
\* request sent, Post returned with the request still on its way, ended.
Rank(t) ==
  CASE t = "none" -> 0
    [] t = "ready" -> 1
    [] t = "unblocked" -> 2
    [] t = "inflight" -> 3
    [] t = "late" -> 4
    [] OTHER -> 5

\* C16, no retries: a goroutine only moves forward; it sends its request in
\* one step only, the one that leaves its check behind, so at most once; and
\* skipped, failed and delivered are final: nothing is sent again.
C16_NoRetries ==
  [][\A r \in Puts, p \in Followers :
       /\ Rank(task'[r][p]) >= Rank(task[r][p])
       /\ TaskPost(r, p) => (task[r][p] = "unblocked" /\ task'[r][p] = "inflight")
       /\ task'[r][p] = "inflight" => task[r][p] \in {"unblocked", "inflight"}
       /\ task[r][p] \in {"skipped", "failed", "ok"} =>
            (task'[r][p] = task[r][p] /\ ~Reaches(r, p))]_vars

\* C16's case: a write was skipped for f1 and its delivery to f2 failed; time
\* has passed, f1 is unblocked, and neither peer holds the write.
C16_Witness ==
  \E r \in Puts :
    /\ task[r]["f1"] = "skipped"
    /\ task[r]["f2"] = "failed"
    /\ "f1" \notin blocked[Leader]
    /\ clock > put[r].e.ts
    /\ ~Holds("f1", r)
    /\ ~Holds("f2", r)

\* C17, partition filter idempotence: a block request leaves the peer
\* blocked, and the set as it was when the peer was blocked already; an
\* unblock request leaves the peer not blocked, and the set as it was when
\* the peer was not in it (so a second unblock changes nothing); no store
\* changes; and every such request can be handled in every state.
C17_PartitionIdempotent ==
  [][/\ \A n \in Nodes, b \in PeerArgs, u \in PeerArgs : ENABLED Partition(n, b, u)
     /\ \A n \in Nodes, x \in Followers :
          /\ Partition(n, x, "") =>
               /\ x \in blocked'[n]
               /\ x \in blocked[n] => blocked' = blocked
               /\ store' = store
          /\ Partition(n, "", x) =>
               /\ x \notin blocked'[n]
               /\ x \notin blocked[n] => blocked' = blocked
               /\ store' = store]_vars

\* C17's case: the leader has f1 blocked and f2 not: a second block of f1
\* and an unblock of f2 are both requests that find nothing to do.
C17_Witness ==
  /\ blocked[Leader] = {"f1"}
  /\ store[Leader] # <<>>

\* C18, partition control is leader-only: a block or unblock request handled
\* by a follower changes neither the follower's blocked set nor any store.
C18_PartitionNoEffectOnFollower ==
  [][\A n \in Followers, b \in PeerArgs, u \in PeerArgs :
       Partition(n, b, u) => (blocked'[n] = blocked[n] /\ store' = store)]_vars

\* Some put was accepted, every accepted put is merged and launched, and
\* every goroutine of every accepted put has delivered with success: no peer
\* was skipped as blocked, no delivery failed, none is under way.
Quiescent ==
  /\ Accepted # {}
  /\ \A r \in Accepted :
       /\ put[r].pc \in {"dispatched", "acked"}
       /\ \A p \in PeersOf(put[r].node) : task[r][p] = "ok"

\* Two accepted puts brought key k at the same timestamp t.
Tied(k, t) ==
  \E q, r \in Accepted :
    /\ q # r
    /\ put[q].e.key = k /\ put[r].e.key = k
    /\ put[q].e.ts = t /\ put[r].e.ts = t

\* C19 as claimed, quiescent agreement: with every delivery of every accepted
\* write completed with success, each follower holds for every key the very
\* entry the leader holds, value and timestamp.
C19_QuiescentAgreement ==
  Quiescent => \A p \in Followers : store[p] = store[Leader]

\* C19 as amended: with every delivery of every accepted write completed with
\* success, each follower holds the keys the leader holds, each at the
\* leader's timestamp, and with the leader's value unless two accepted writes
\* brought that key at that same timestamp.
C19_QuiescentAgreementButTies ==
  Quiescent =>
    \A p \in Followers :
      /\ DOMAIN store[p] = DOMAIN store[Leader]
      /\ \A k \in DOMAIN store[Leader] :
           /\ store[p][k].ts = store[Leader][k].ts
           /\ store[p][k] = store[Leader][k] \/ Tied(k, store[Leader][k].ts)

\* C19's case: two writes to one key at different times, both delivered to
\* both peers, and all three nodes hold the later one.
C19_Witness ==
  /\ Quiescent
  /\ \E q, r \in Accepted :
       /\ put[q].e.key = put[r].e.key
       /\ put[q].e.ts < put[r].e.ts
       /\ \A n \in Nodes : Holds(n, r)

\* C20, snapshot independence: at its return the map Snapshot hands out
\* equals the store's map of that instant; as long as the caller has not
\* written into it, it stays the map that was handed out whatever Upserts
\* follow; and a write of the caller into it leaves the store's map alone.
C20_SnapshotIndependent ==
  [][/\ SnapReturn => (SnapView' = kvData /\ kvData' = kvData)
     /\ kvSnap.pc = "done" => SnapView = kvSnap.ret
     /\ (kvSnap.pc = "done" /\ kvSnap'.pc = "done") => SnapView' = kvSnap.ret
     /\ \A e \in SnapEdits : SnapMutate(e) => kvData' = kvData]_vars

\* C20's case: a snapshot of a non-empty store was handed out, an Upsert
\* since changed the store, and the snapshot is as it was handed out.
C20_Witness ==
  /\ kvSnap.pc = "done"
  /\ kvSnap.ret # <<>>
  /\ kvData # kvSnap.ret
  /\ SnapView = kvSnap.ret
  /\ KvQuiet

\* C21, non-empty key invariant: no node's store holds an entry under the
\* empty key, whatever puts and replicate requests the nodes get.
C21_NoEmptyKey ==
  \A n \in Nodes : "" \notin DOMAIN store[n]

\* Puts q and r are accepted writes to one key, q with the older timestamp.
Older(q, r) ==
  /\ q \in Accepted /\ r \in Accepted
  /\ put[q].e.key = put[r].e.key
  /\ put[q].e.ts < put[r].e.ts

\* Some accepted put other than r brought r's key at r's timestamp or later.
Superseded(r) ==
  \E x \in Accepted \ {r} :
    put[x].e.key = put[r].e.key /\ put[x].e.ts >= put[r].e.ts

\* C22, out-of-order delivery converges: with an older and a newer write to
\* one key both delivered to a follower, the follower holds the newer one
\* (unless a third write as new superseded it), whichever came first; and the
\* arrival of the older write at a follower that holds the newer one leaves
\* the follower's store as it is.
C22_OutOfOrderConverges ==
  [][\A q, r \in Puts, p \in Followers :
       Older(q, r) =>
         /\ (task[q][p] = "ok" /\ task[r][p] = "ok") =>
              (Has(p, put[r].e) /\ (Holds(p, r) \/ Superseded(r)))
         /\ (Holds(p, r) /\ \E heard \in BOOLEAN : FollowerReplicate(q, p, heard)) =>
              store'[p] = store[p]]_vars

\* C22's case: the older write was sent first and is still on its way while
\* f1 already holds the newer one, delivered with success: the older one
\* arrives out of order.
C22_Witness ==
  \E q, r \in Puts :
    /\ q < r
    /\ Older(q, r)
    /\ task[q]["f1"] = "inflight"
    /\ task[r]["f1"] = "ok"
    /\ Holds("f1", r)

\* C23, unconditional acknowledgment by followers: a follower's answer to a
\* replicate request is 200, and the leader's goroutine that gets the answer
\* ends as a success, also when the entry is stale and the merge drops it
\* (the follower's store then stays as it is).
C23_UnconditionalAck ==
  [][\A r \in Puts, p \in Followers :
       (task[r][p] = "inflight" /\ FollowerReplicate(r, p, TRUE)) =>
         /\ ReplicateStatus(p) = 200
         /\ task'[r][p] = "ok"
         /\ Stale(p, put[r].e) => store'[p] = store[p]]_vars

\* C23's case: a write was delivered with success to f1 although f1 holds a
\* strictly newer entry for its key.
C23_Witness ==
  \E r \in Puts :
    /\ task[r]["f1"] = "ok"
    /\ Stale("f1", put[r].e)

\* C24, local-first ordering: a put has goroutines only once the leader has
\* merged its entry: the leader then holds the entry or a newer one for its
\* key; and a follower that holds a put's entry finds the leader holding it
\* or a newer one.
C24_LocalFirst ==
  \A r \in Puts, p \in Followers :
    /\ task[r][p] # "none" =>
         (put[r].pc \in {"dispatched", "acked"} /\ Has(put[r].node, put[r].e))
    /\ Holds(p, r) => Has(Leader, put[r].e)

\* C24's case: the leader has merged a write and no goroutine of it exists
\* yet; no follower holds anything.
C24_Witness ==
  \E r \in Puts :
    /\ put[r].pc = "merged"
    /\ Holds(Leader, r)
    /\ \A p \in Followers : task[r][p] = "none" /\ store[p] = <<>>

\* A step of the goroutine of put r for peer p, or of p on its request.
TaskStep(r, p) ==
  \/ TaskCheck(r, p)
  \/ TaskPost(r, p)
  \/ \E late \in BOOLEAN : TaskFail(r, p, late)
  \/ \E heard \in BOOLEAN : FollowerReplicate(r, p, heard)

\* C25, per-peer independence: whatever the goroutines for the other peers
\* have come to, a launched goroutine can make its check, one past its check
\* can send, and a request sent can be handled by its peer; and a step of one
\* peer's goroutine, a skip, a failure or a timeout included, leaves the
\* goroutines of the other peers as they are.
C25_PerPeerIndependence ==
  [][\A r \in Puts, p \in Followers :
       /\ task[r][p] = "ready" => ENABLED TaskCheck(r, p)
       /\ task[r][p] = "unblocked" => ENABLED TaskPost(r, p)
       /\ task[r][p] = "inflight" => ENABLED FollowerReplicate(r, p, TRUE)
       /\ TaskStep(r, p) =>
            \A x \in Followers \ {p} : task'[r][x] = task[r][x]]_vars

\* C25's case: the request to f1 timed out and is still on its way, and the
\* same write was delivered to f2, which holds it.
C25_Witness ==
  \E r \in Puts :
    /\ task[r]["f1"] = "late"
    /\ task[r]["f2"] = "ok"
    /\ Holds("f2", r)
    /\ ~Holds("f1", r)

\* handlePut has accepted put r and has not answered it yet.
InHand(r) == put[r].pc \in {"stamped", "merged", "dispatched"}

\* The goroutine of put r for peer p is launched and has no outcome yet.
Running(r, p) == task[r][p] \in {"ready", "unblocked", "inflight"}

Inside(a) == acc[a].pc \in {"locked", "blockDone", "unblockDone", "read"}

\* Accessor a reads or writes BlockPeers in this step.
Touches(a) ==
  \/ PartitionBlock(a)
  \/ PartitionUnblock(a)
  \/ PartitionRespond(a)
  \/ \E k \in Followers : StatusCopy(a, k)
  \/ CheckRead(a)

\* C27, partition filter synchronization: every read and every write of the
\* leader's BlockPeers, by a partition request, a status request or the check
\* of a goroutine, is made by the one holder of s.mu, while no other request
\* or goroutine is between its Lock and its Unlock; s.mu is held only by one
\* that will release it; what a status request has copied is in the set, and
\* what a request or a check has read when it is done is what the set held
\* for it.
C27_FilterSynchronized ==
  [][\A a \in Accessors :
       /\ Touches(a) => (smu = a /\ \A x \in Accessors \ {a} : ~Inside(x))
       /\ Inside(a) => smu = a
       /\ smu # 0 => Inside(smu)
       /\ (acc[a].kind = "status" /\ Inside(a)) => acc[a].seen \subseteq blocked[Leader]
       /\ StatusUnlock(a) => acc[a].seen = blocked[Leader]
       /\ CheckUnlock(a) => (acc[a].seen = {acc[a].b}) = IsBlocked(Leader, acc[a].b)]_vars

\* C27's case: a partition request holds s.mu and has blocked a peer, while
\* a status request and the check of a goroutine for that peer wait at their
\* Lock.
C27_Witness ==
  \E a, x, y \in Accessors :
    /\ acc[a].kind = "partition" /\ acc[a].pc = "blockDone"
    /\ acc[a].b \in blocked[Leader]
    /\ acc[x].kind = "status" /\ acc[x].pc = "call"
    /\ acc[y].kind = "check" /\ acc[y].pc = "call" /\ acc[y].b = acc[a].b

\* Node n's store holds in the next state, for every key but k, what it
\* holds now: no key but k comes, goes or changes.
SameElsewhere(n, k) ==
  \A x \in (DOMAIN store[n] \cup DOMAIN store'[n]) \ {k} :
    /\ x \in DOMAIN store[n]
    /\ x \in DOMAIN store'[n]
    /\ store'[n][x] = store[n][x]

\* C28, single-entry effect: the Upsert of a client put on the leader, and
\* the handling of a replicated write by a follower, leave on that node every
\* entry but that of the write's key as it was, leave the stores of the other
\* nodes as they were, and leave every blocked-peer set as it was.
C28_SingleEntryEffect ==
  [][/\ \A r \in Puts :
          PutUpsert(r) =>
            /\ SameElsewhere(put[r].node, put[r].e.key)
            /\ \A n \in Nodes \ {put[r].node} : store'[n] = store[n]
            /\ blocked' = blocked
     /\ \A r \in Puts, p \in Followers :
          (\E heard \in BOOLEAN : FollowerReplicate(r, p, heard)) =>
            /\ SameElsewhere(p, put[r].e.key)
            /\ \A n \in Nodes \ {p} : store'[n] = store[n]
            /\ blocked' = blocked]_vars

\* C28's case: f1 holds the entry of a write delivered to it beside an entry
\* of another key, as the leader does, while the leader has f2 blocked.
C28_Witness ==
  \E r \in Puts :
    /\ task[r]["f1"] = "ok"
    /\ Holds("f1", r)
    /\ Holds(Leader, r)
    /\ DOMAIN store["f1"] \ {put[r].e.key} # {}
    /\ DOMAIN store[Leader] \ {put[r].e.key} # {}
    /\ blocked[Leader] = {"f2"}

\* C29, every non-async mode blocks: a leader whose mode is not async, be it
\* sync or any other string, has answered a put only when the goroutine of
\* every peer has reached its outcome.
C29_NonAsyncBlocks ==
  mode # Async =>
    \A r \in Puts : Acked(r) =>
      \A p \in PeersOf(put[r].node) : task[r][p] \in Terminal

\* C30, followers never run ahead of the leader: with replicated writes sent
\* by the leader only, every key a follower holds is held by the leader, with
\* a timestamp that is not before the follower's.
C30_FollowersNeverAhead ==
  \A p \in Followers : \A k \in DOMAIN store[p] :
    /\ k \in DOMAIN store[Leader]
    /\ ~Before(store[Leader][k].ts, store[p][k].ts)

\* C30's case: the leader holds for a key a newer entry than f1, which was
\* delivered the older write alone, and the same entry as f2.
C30_Witness ==
  \E k \in DOMAIN store["f1"] \cap DOMAIN store["f2"] :
    /\ Before(store["f1"][k].ts, store[Leader][k].ts)
    /\ store["f2"][k] = store[Leader][k]

\* Accessor a holds s.mu; it holds kv.mu, for writing or for reading; it is
\* at the Lock of s.mu; it is at the Lock or RLock of kv.mu; it waits for the
\* network: for the client of its answer, or for the peer of its request.
HoldsSMu(a) == smu = a
HoldsStore(a) == kvMu = a \/ a \in StoreReaders
AtSMu(a) == acc[a].pc = "call"
AtStore(a) == acc[a].pc = "kcall" \/ (acc[a].kind = "status" /\ acc[a].pc = "done")
OnNetwork(a) == acc[a].pc \in {"sending", "posting"}

\* No request or goroutine holds both locks, or is at the Lock of one while
\* it holds the other.
LocksApart ==
  \A a \in Accessors :
    /\ ~(HoldsSMu(a) /\ HoldsStore(a))
    /\ ~(HoldsSMu(a) /\ AtStore(a))
    /\ ~(HoldsStore(a) /\ AtSMu(a))

\* C31, deadlock freedom of the two locks: no request or goroutine holds
\* s.mu and kv.mu together or is at the Lock of one while holding the other,
\* and none waits for the network while it holds either lock, so that the
\* holder of a lock can always go on to release it.
C31_LocksDeadlockFree ==
  /\ LocksApart
  /\ \A a \in Accessors : OnNetwork(a) => (~HoldsSMu(a) /\ ~HoldsStore(a))

====
